---- MODULE Spec2Model ----
(***************************************************************************)
(* nuxt-authjs: the /api/auth request handler with its credentials-flow    *)
(* cookie rewrite (runtime/server/handler.ts) and the encrypted session    *)
(* token codec with key rotation (runtime/server/config.ts).               *)
(*                                                                         *)
(* Strings are sequences of atomic string tokens, so that startsWith,      *)
(* endsWith and the trailing-slash regexps are computed as the code        *)
(* computes them.  An absent (undefined) value is the empty sequence <<>>, *)
(* a present value v is <<v>>.                                             *)
(***************************************************************************)
EXTENDS Integers, Sequences, FiniteSets, TLC

VARIABLES
    hpc,            \* position of the request handler: "idle", "inAuth", "done"
    req,            \* the request being handled: method, url, event.context.$auth.options
    patched,        \* Auth was called with the patched jwt callback
    jwtCalls,       \* invocations of the patched jwt callback by Auth
    gotUserId,      \* some invocation received a user with an id
    cbThrew,        \* the patched jwt callback raised (createSession rejected)
    sessionCookie,  \* handleCredentialsCallback's local sessionCookie
    persisted,      \* session records the adapter stored for this request
    adapterCalls,   \* calls of adapter.createSession for this request
    rawResponse,    \* Set-Cookie headers of the response Auth returned
    response,       \* the response the handler returns
    outcome,        \* how the handler ended
    clock,          \* now(): the current time in seconds
    tok,            \* the token at hand (a cookie value), absent when <<>>
    issued,         \* the encode call that produced tok, <<>> for a token from elsewhere
    dcall,          \* the parameters of the decode call just made, <<>> when none
    dres,           \* the result of that decode call
    dev,            \* process.dev as the auth setup of the request read it
    given,          \* the configuration handed to resolveAuthConfig, <<>> before setup
    options,        \* event.context.$auth.options after setup, <<>> before
    warned,         \* the setup logged the missing-secret warning
    authResult,     \* what Auth's configuration check said of options, "" before
    ppc,            \* position of the client plugin: "start" .. "mounted", "unmounted"
    data,           \* useState('auth:data'): "undefined", "null" or a session
    loading,        \* useState('auth:loading')
    lastRefreshedAt, \* useState('auth:lastRefreshedAt'), <<>> when undefined
    inflight,       \* the getSession calls whose $fetch has not settled
    calls,          \* getSession calls made so far; serves as the client's clock
    refreshOnWindowFocus, \* as the plugin read it from the public runtime config
    refreshPeriodically,  \* likewise: <<>> for false, <<n>> for the number n
    listening,      \* the visibilitychange listener is registered
    timer,          \* the refetch interval is set
    nav,            \* the navigation the route middleware is run for, <<>> when none
    navResult       \* what the route middleware returned for it

handlerVars == <<hpc, req, patched, jwtCalls, gotUserId, cbThrew, sessionCookie,
                 persisted, adapterCalls, rawResponse, response, outcome>>

codecVars == <<clock, tok, issued, dcall, dres>>

configVars == <<dev, given, options, warned, authResult>>

clientVars == <<ppc, data, loading, lastRefreshedAt, inflight, calls,
                refreshOnWindowFocus, refreshPeriodically, listening, timer>>

middlewareVars == <<nav, navResult>>

vars == <<handlerVars, codecVars, configVars, clientVars, middlewareVars>>

\* the variables each part of the program leaves alone
outsideHandler == <<codecVars, configVars, clientVars, middlewareVars>>

outsideCodec == <<handlerVars, configVars, clientVars, middlewareVars>>

outsideConfig == <<handlerVars, codecVars, clientVars, middlewareVars>>

outsideClient == <<handlerVars, codecVars, configVars, middlewareVars>>

outsideMiddleware == <<handlerVars, codecVars, configVars, clientVars>>

----------------------------------------------------------------------------
(* Bounds *)

MaxCookies == 3
MaxTrailingSlashes == 2
MaxJwtCalls == 2
MaxClock == 20

----------------------------------------------------------------------------
(* String helpers over token sequences *)

startsWith(s, prefix) ==
    Len(s) >= Len(prefix) /\ SubSeq(s, 1, Len(prefix)) = prefix

endsWith(s, suffix) ==
    Len(s) >= Len(suffix) /\ SubSeq(s, Len(s) - Len(suffix) + 1, Len(s)) = suffix

\* First position of token t in s, 0 when absent
IndexOf(s, t) ==
    IF \E i \in DOMAIN s : s[i] = t
    THEN CHOOSE i \in DOMAIN s : s[i] = t /\ \A j \in 1..(i - 1) : s[j] # t
    ELSE 0

\* str.replace(/\/$/, '')
StripTrailingSlash(s) ==
    IF Len(s) > 0 /\ s[Len(s)] = "/" THEN SubSeq(s, 1, Len(s) - 1) ELSE s

\* new URL(u).pathname, for the path-and-query part of a URL; an empty path is "/"
UrlPathname(u) ==
    LET q == IndexOf(u, "?")
        p == IF q = 0 THEN u ELSE SubSeq(u, 1, q - 1)
    IN  IF p = <<>> THEN <<"/">> ELSE p

\* the query part of a URL, "?" included
UrlSearch(u) ==
    LET q == IndexOf(u, "?") IN IF q = 0 THEN <<>> ELSE SubSeq(u, q, Len(u))

\* ufo's withTrailingSlash, used by isEqual
WithTrailingSlash(p) ==
    IF Len(p) > 0 /\ p[Len(p)] = "/" THEN p ELSE Append(p, "/")

\* ufo's isEqual(a, b): equal up to one trailing slash
isEqual(a, b) == WithTrailingSlash(a) = WithTrailingSlash(b)

\* ufo's withQuery(input, query): the request's query is merged after input's own
withQuery(input, search) ==
    IF search = <<>> THEN input
    ELSE IF IndexOf(input, "?") = 0 THEN input \o search
    ELSE input \o <<"&">> \o Tail(search)

\* ufo's joinURL(base, path) for a base without trailing slash and a path with a leading one
joinURL(base, path) == base \o path

----------------------------------------------------------------------------
(* Requests and options *)

BasePath == <<"/", "api", "/", "auth">>

CredentialsSuffix == <<"/", "callback", "/", "credentials">>

Slashes(n) == [i \in 1..n |-> "/"]

Stems ==
    { BasePath \o CredentialsSuffix,
      BasePath \o <<"/", "callback", "/", "github">>,
      BasePath \o <<"/", "sign-in">>,
      BasePath \o CredentialsSuffix \o <<"/", "x">> }

Queries == { <<>>, <<"?", "cb">> }

Urls == { s \o Slashes(n) \o q : s \in Stems, n \in 0..MaxTrailingSlashes, q \in Queries }

Methods == {"GET", "POST"}

SessionNames == { <<"sessionToken">>, <<"__session">> }

ErrorPages == { <<"/", "sign-in">>, <<"/", "error", "?", "e">> }

\* session.maxAge configured with a session-cookie name (0 is falsy: the default applies)
MaxAgeOf(name) == IF name = <<"sessionToken">> THEN 0 ELSE 60

\* The resolved options the handler reads: session.strategy, cookies.sessionToken.name
\* and .options, pages.error, session.maxAge
Configs ==
    { [ strategy |-> st, name |-> n, attrs |-> <<"; Path=/", "; HttpOnly">>,
        error |-> e, maxAge |-> MaxAgeOf(n) ] :
      st \in {"jwt", "database"}, n \in SessionNames, e \in ErrorPages }

\* event.context.$auth?.options: absent when no auth plugin ran
OptionsOpt == { <<>> } \cup { <<c>> : c \in Configs }

----------------------------------------------------------------------------
(* Cookies: a Set-Cookie header line is name \o <<"=", value>> \o attributes *)

\* the name of a Set-Cookie line: everything before the first "="
CookieName(line) == SubSeq(line, 1, IndexOf(line, "=") - 1)

\* the value token of a Set-Cookie line
CookieValue(line) == line[IndexOf(line, "=") + 1]

\* Set-Cookie lines the library may put on its response, for a session-cookie name:
\* its own session cookie, a chunk of a chunked session cookie, and auxiliary cookies
RawLines(name) ==
    { name \o <<"=", "default-cookie">>,
      name \o <<".0", "=", "chunk">>,
      <<"csrfToken", "=", "abc">>,
      <<"callback-url", "=", "cb", "; Path=/">> }

SeqsUpTo(S, n) == UNION { [1..k -> S] : k \in 0..n }

RawCookieLists(name) == SeqsUpTo(RawLines(name), MaxCookies)

SessionTokens == {"tok123", "tok 4"}

encodeURIComponent(v) == IF v = "tok 4" THEN "tok%204" ELSE v

\* cookie-es serialize(name, value, options); options always carry `expires` here
serialize(name, value, attrs) ==
    name \o <<"=", encodeURIComponent(value)>> \o attrs \o <<"; Expires">>

\* user?.id of the jwt callback's argument; "" stands for every falsy id
Users ==
    { [present |-> FALSE, id |-> ""],
      [present |-> TRUE,  id |-> ""],
      [present |-> TRUE,  id |-> "u1"] }

UserId(user) == IF user.present THEN user.id ELSE ""

\* a callback that does not test the user id
Truthy_Always(userId) == TRUE

\* if (userId)
Truthy(userId) == userId # ""

DefaultSessionMaxAge == 2592000

\* new Date(Date.now() + (config.session?.maxAge || 2592000) * 1000), as seconds
\* after Date.now()
SessionExpires(cfg) ==
    IF cfg.maxAge # 0 THEN cfg.maxAge ELSE DefaultSessionMaxAge

\* function isCredentialsCallback(req)
isCredentialsCallback(url) ==
    LET originalUrl == StripTrailingSlash(url)
        pathname    == StripTrailingSlash(UrlPathname(originalUrl))
    IN  endsWith(pathname, CredentialsSuffix)

\* joinURL(options.basePath, parseURL(options.pages.error).pathname)
ErrorPagePath(cfg) == joinURL(BasePath, UrlPathname(cfg.error))

\* a handler that takes the credentials path under either session strategy
HandlerBranch_AnyStrategy(m, u, o) ==
    IF o = <<>> THEN "notFound"
    ELSE IF m = "POST" /\ isCredentialsCallback(u) THEN "credentials"
    ELSE IF isEqual(UrlPathname(u), ErrorPagePath(o[1])) THEN "errorRedirect"
    ELSE "forward"

\* which way the event handler goes for a request (method m, url u, options o)
HandlerBranch(m, u, o) ==
    IF o = <<>> THEN "notFound"
    ELSE IF m = "POST" /\ o[1].strategy = "database" /\ isCredentialsCallback(u)
         THEN "credentials"
    ELSE IF isEqual(UrlPathname(u), ErrorPagePath(o[1])) THEN "errorRedirect"
    ELSE "forward"

\* a rewrite that forgets to drop the library's session cookies
RewriteCookies_KeepAll(raw, sc) ==
    raw \o << serialize(sc.name, sc.value, sc.attrs) >>

\* a rewrite that puts the replacement cookie before the others
RewriteCookies_ReplacementFirst(raw, sc) ==
    << serialize(sc.name, sc.value, sc.attrs) >>
        \o SelectSeq(raw, LAMBDA cookie : ~startsWith(cookie, sc.name \o <<"=">>))

\* lines 100-114: drop the session cookies, re-append the others, append the replacement
RewriteCookies(raw, sc) ==
    LET cookies == SelectSeq(raw, LAMBDA cookie : ~startsWith(cookie, sc.name \o <<"=">>))
    IN  cookies \o << serialize(sc.name, sc.value, sc.attrs) >>

NoResponse == [kind |-> "none", cookies |-> <<>>, location |-> <<>>]

HandlerInit ==
    /\ hpc = "idle"
    /\ req = [method |-> "GET", url |-> <<>>, options |-> <<>>]
    /\ patched = FALSE
    /\ jwtCalls = 0
    /\ gotUserId = FALSE
    /\ cbThrew = FALSE
    /\ sessionCookie = <<>>
    /\ persisted = <<>>
    /\ adapterCalls = 0
    /\ rawResponse = <<>>
    /\ response = NoResponse
    /\ outcome = "pending"

\* eventHandler, up to the call of Auth (or to its end when Auth is not called)
Request(m, u, o) ==
    /\ hpc = "idle"
    /\ req' = [method |-> m, url |-> u, options |-> o]
    /\ LET branch == HandlerBranch(m, u, o) IN
       /\ hpc' = IF branch \in {"credentials", "forward"} THEN "inAuth" ELSE "done"
       /\ patched' = (branch = "credentials")
       /\ outcome' = CASE branch = "notFound" -> "throw404"
                       [] branch = "errorRedirect" -> "redirect"
                       [] OTHER -> "pending"
       /\ response' = IF branch = "errorRedirect"
                      THEN [kind |-> "redirect", cookies |-> <<>>,
                            location |-> withQuery(o[1].error, UrlSearch(u))]
                      ELSE NoResponse
    /\ UNCHANGED <<jwtCalls, gotUserId, cbThrew, sessionCookie, persisted,
                   adapterCalls, rawResponse>>
    /\ UNCHANGED outsideHandler

\* the patched jwt callback, invoked by Auth; createSession stores the record and
\* returns it (ok) or rejects (~ok)
JwtCallback(user, sessionToken, ok) ==
    /\ hpc = "inAuth" /\ patched /\ ~cbThrew
    /\ jwtCalls < MaxJwtCalls
    /\ jwtCalls' = jwtCalls + 1
    /\ gotUserId' = (gotUserId \/ (user.present /\ user.id # ""))
    /\ LET cfg     == req.options[1]
           userId  == UserId(user)
           session == [userId |-> userId, sessionToken |-> sessionToken,
                       expires |-> SessionExpires(cfg)]
       IN  IF Truthy(userId)
           THEN /\ adapterCalls' = adapterCalls + 1
                /\ IF ok
                   THEN /\ persisted' = Append(persisted, session)
                        /\ sessionCookie' = << [name  |-> cfg.name,
                                                value |-> session.sessionToken,
                                                attrs |-> cfg.attrs] >>
                        /\ UNCHANGED cbThrew
                   ELSE /\ cbThrew' = TRUE
                        /\ UNCHANGED <<persisted, sessionCookie>>
           ELSE UNCHANGED <<adapterCalls, persisted, sessionCookie, cbThrew>>
    /\ UNCHANGED <<hpc, req, patched, rawResponse, response, outcome>>
    /\ UNCHANGED outsideHandler

\* Auth resolves with a response (also when it turned a callback error into an error
\* response); the handler rewrites the cookies when sessionCookie is set, and returns
AuthReturn(raw) ==
    /\ hpc = "inAuth"
    /\ rawResponse' = raw
    /\ response' = [kind |-> "auth",
                    cookies |-> IF patched /\ sessionCookie # <<>>
                                THEN RewriteCookies(raw, sessionCookie[1])
                                ELSE raw,
                    location |-> <<>>]
    /\ outcome' = "response"
    /\ hpc' = "done"
    /\ UNCHANGED <<req, patched, jwtCalls, gotUserId, cbThrew, sessionCookie,
                   persisted, adapterCalls>>
    /\ UNCHANGED outsideHandler

\* Auth rejects: the await on line 94 (line 45) raises and the handler fails
AuthThrow ==
    /\ hpc = "inAuth"
    /\ outcome' = IF cbThrew THEN "throwAdapter" ELSE "throwAuth"
    /\ hpc' = "done"
    /\ UNCHANGED <<req, patched, jwtCalls, gotUserId, cbThrew, sessionCookie,
                   persisted, adapterCalls, rawResponse, response>>
    /\ UNCHANGED outsideHandler

\* the next request starts from fresh handler locals
NextRequest ==
    /\ hpc = "done"
    /\ hpc' = "idle"
    /\ req' = [method |-> "GET", url |-> <<>>, options |-> <<>>]
    /\ patched' = FALSE
    /\ jwtCalls' = 0
    /\ gotUserId' = FALSE
    /\ cbThrew' = FALSE
    /\ sessionCookie' = <<>>
    /\ persisted' = <<>>
    /\ adapterCalls' = 0
    /\ rawResponse' = <<>>
    /\ response' = NoResponse
    /\ outcome' = "pending"
    /\ UNCHANGED outsideHandler

\* a getSession that calls Auth whether or not the event has auth options
getSessionBranch_AlwaysAuth(o) == "auth"

\* server-side getSession: options ??= event.context.$auth?.options; if (!options) return null
getSessionBranch(o) == IF o = <<>> THEN "null" ELSE "auth"

\* new URL('/api/auth/session', request.url)
SessionUrl == BasePath \o <<"/", "session">>

\* what Auth answers the session request with: status and JSON body
SessionStatuses == {200, 500}

SessionBodies == {"null", "{}", "session", "message"}

\* export async function getSession(event), up to the call of Auth (or to its return)
GetSession(o) ==
    /\ hpc = "idle"
    /\ req' = [method |-> "GET", url |-> SessionUrl, options |-> o]
    /\ hpc' = IF getSessionBranch(o) = "auth" THEN "inGetSession" ELSE "gotSession"
    /\ outcome' = IF getSessionBranch(o) = "auth" THEN "pending" ELSE "sessionNull"
    /\ UNCHANGED <<patched, jwtCalls, gotUserId, cbThrew, sessionCookie, persisted,
                   adapterCalls, rawResponse, response>>
    /\ UNCHANGED outsideHandler

\* Auth resolves: null for an empty body, the body for status 200, an Error otherwise
GetSessionAuthReturn(st, body) ==
    /\ hpc = "inGetSession"
    /\ outcome' = IF body \in {"null", "{}"} THEN "sessionNull"
                  ELSE IF st = 200 THEN "sessionData"
                  ELSE "sessionThrow"
    /\ hpc' = "gotSession"
    /\ UNCHANGED <<req, patched, jwtCalls, gotUserId, cbThrew, sessionCookie, persisted,
                   adapterCalls, rawResponse, response>>
    /\ UNCHANGED outsideHandler

\* Auth rejects: getSession rejects with it
GetSessionAuthThrow ==
    /\ hpc = "inGetSession"
    /\ outcome' = "throwAuth"
    /\ hpc' = "gotSession"
    /\ UNCHANGED <<req, patched, jwtCalls, gotUserId, cbThrew, sessionCookie, persisted,
                   adapterCalls, rawResponse, response>>
    /\ UNCHANGED outsideHandler

\* getSession has returned to its caller
GetSessionEnd ==
    /\ hpc = "gotSession"
    /\ hpc' = "idle"
    /\ req' = [method |-> "GET", url |-> <<>>, options |-> <<>>]
    /\ outcome' = "pending"
    /\ UNCHANGED <<patched, jwtCalls, gotUserId, cbThrew, sessionCookie, persisted,
                   adapterCalls, rawResponse, response>>
    /\ UNCHANGED outsideHandler

HandlerNext ==
    \/ \E m \in Methods, u \in Urls, o \in OptionsOpt : Request(m, u, o)
    \/ \E o \in OptionsOpt : GetSession(o)
    \/ \E st \in SessionStatuses, body \in SessionBodies : GetSessionAuthReturn(st, body)
    \/ GetSessionAuthThrow
    \/ GetSessionEnd
    \/ \E user \in Users, st \in SessionTokens, ok \in BOOLEAN : JwtCallback(user, st, ok)
    \/ /\ hpc = "inAuth"
       /\ \E raw \in RawCookieLists(req.options[1].name) : AuthReturn(raw)
    \/ AuthThrow
    \/ NextRequest


----------------------------------------------------------------------------
(* The session token codec (config.ts, encode / decode / getDerivedEncryptionKey). *)
(* The cryptography is idealised: hkdf and the thumbprint are injective, and a     *)
(* JWE decrypts exactly under the key it was encrypted with when its ciphertext    *)
(* was not altered.                                                                *)

DEFAULT_MAX_AGE == 30 * 24 * 60 * 60

alg == "dir"

enc == "A256CBC-HS512"

clockTolerance == 15

keyManagementAlgorithms == {alg}

contentEncryptionAlgorithms == {enc, "A256GCM"}

Secrets == {"S1", "S2"}

Salts == {"__session", "other"}

\* the `secret` parameter: one string, or an array of strings
SecretParams ==
    { [array |-> FALSE, list |-> <<x>>] : x \in Secrets }
    \cup { [array |-> TRUE, list |-> <<x>>] : x \in Secrets }
    \cup { [array |-> TRUE, list |-> <<x, y>>] : <<x, y>> \in { p \in Secrets \X Secrets : p[1] # p[2] } }

\* Array.isArray(secret) ? secret : [secret]
AsArray(secret) == IF secret.array THEN secret.list ELSE << secret.list[1] >>

NoKey == [ikm |-> "", salt |-> "", info |-> <<>>, len |-> 0]

\* hkdf('sha256', ikm, salt, info, keylen): the derived key stands for its inputs
hkdf(ikm, salt, info, keylen) == [ikm |-> ikm, salt |-> salt, info |-> info, len |-> keylen]

\* a derivation that leaves the salt out of the key
getDerivedEncryptionKey_NoSalt(e, keyMaterial, salt) ==
    IF e = "A256CBC-HS512"
    THEN [ok |-> TRUE, key |-> hkdf(keyMaterial, "", <<"Auth Encryption Key">>, 64)]
    ELSE IF e = "A256GCM"
    THEN [ok |-> TRUE, key |-> hkdf(keyMaterial, "", <<"Auth Encryption Key">>, 32)]
    ELSE [ok |-> FALSE, key |-> NoKey]

\* async function getDerivedEncryptionKey(enc, keyMaterial, salt)
getDerivedEncryptionKey(e, keyMaterial, salt) ==
    IF e = "A256CBC-HS512"
    THEN [ok |-> TRUE,
          key |-> hkdf(keyMaterial, salt, <<"Auth Encryption Key (", salt, ")">>, 64)]
    ELSE IF e = "A256GCM"
    THEN [ok |-> TRUE,
          key |-> hkdf(keyMaterial, salt, <<"Auth Encryption Key (", salt, ")">>, 32)]
    ELSE [ok |-> FALSE, key |-> NoKey]

\* calculateJwkThumbprint({kty:'oct', k}, `sha${byteLength << 3}`)
calculateJwkThumbprint(key) == [k |-> key, digest |-> key.len * 8]

\* claims maps handed to encode: application claims, possibly with an own "exp"
ClaimsMaps ==
    { [k \in {} |-> "u1"],
      [sub |-> "u1"],
      [sub |-> "u2", exp |-> 1] }

EmptyClaims == [k \in {} |-> "u1"]

\* the maxAge parameter: absent, or a number of seconds
MaxAges == { <<>>, <<0>> }

Jtis == {"jti-1"}

\* an encoder that subtracts maxAge from now
encode_ExpiredAtIssue(token, secret, maxAge, salt, now, jti) ==
    LET secrets == AsArray(secret)
        age     == IF maxAge = <<>> THEN DEFAULT_MAX_AGE ELSE maxAge[1]
        encryptionSecret == getDerivedEncryptionKey(enc, secrets[1], salt).key
        thumbprint == calculateJwkThumbprint(encryptionSecret)
    IN  [kind |-> "jwe",
         hdr |-> [alg |-> alg, enc |-> enc, kid |-> <<thumbprint>>],
         key |-> encryptionSecret,
         payload |-> [k \in (DOMAIN token) \cup {"iat", "exp", "jti"} |->
                        CASE k = "iat" -> now
                          [] k = "exp" -> now - age
                          [] k = "jti" -> jti
                          [] OTHER -> token[k]],
         tampered |-> FALSE]

\* an encoder that takes the last secret of the list
encode_LastSecret(token, secret, maxAge, salt, now, jti) ==
    LET secrets == AsArray(secret)
        age     == IF maxAge = <<>> THEN DEFAULT_MAX_AGE ELSE maxAge[1]
        encryptionSecret == getDerivedEncryptionKey(enc, secrets[Len(secrets)], salt).key
        thumbprint == calculateJwkThumbprint(encryptionSecret)
    IN  [kind |-> "jwe",
         hdr |-> [alg |-> alg, enc |-> enc, kid |-> <<thumbprint>>],
         key |-> encryptionSecret,
         payload |-> [k \in (DOMAIN token) \cup {"iat", "exp", "jti"} |->
                        CASE k = "iat" -> now
                          [] k = "exp" -> now + age
                          [] k = "jti" -> jti
                          [] OTHER -> token[k]],
         tampered |-> FALSE]

\* export async function encode(params), at time now, with crypto.randomUUID() = jti
encode(token, secret, maxAge, salt, now, jti) ==
    LET secrets == AsArray(secret)
        age     == IF maxAge = <<>> THEN DEFAULT_MAX_AGE ELSE maxAge[1]
        encryptionSecret == getDerivedEncryptionKey(enc, secrets[1], salt).key
        thumbprint == calculateJwkThumbprint(encryptionSecret)
    IN  [kind |-> "jwe",
         hdr |-> [alg |-> alg, enc |-> enc, kid |-> <<thumbprint>>],
         key |-> encryptionSecret,
         payload |-> [k \in (DOMAIN token) \cup {"iat", "exp", "jti"} |->
                        CASE k = "iat" -> now
                          [] k = "exp" -> now + age
                          [] k = "jti" -> jti
                          [] OTHER -> token[k]],
         tampered |-> FALSE]

\* a key callback that, for a token without key identifier, goes on to the last secret
RECURSIVE getKey_LegacyLast(_, _, _, _, _)
getKey_LegacyLast(secrets, i, kid, e, salt) ==
    IF i > Len(secrets)
    THEN [ok |-> FALSE, key |-> NoKey, error |-> "no matching decryption secret",
          derived |-> 0]
    ELSE LET d == getDerivedEncryptionKey(e, secrets[i], salt) IN
         IF ~d.ok
         THEN [ok |-> FALSE, key |-> NoKey,
               error |-> "Unsupported JWT Content Encryption Algorithm", derived |-> 0]
         ELSE IF kid = <<>> /\ i = Len(secrets)
         THEN [ok |-> TRUE, key |-> d.key, error |-> "", derived |-> 1]
         ELSE IF kid # <<>> /\ kid[1] = calculateJwkThumbprint(d.key)
         THEN [ok |-> TRUE, key |-> d.key, error |-> "", derived |-> 1]
         ELSE LET r == getKey_LegacyLast(secrets, i + 1, kid, e, salt)
              IN  [r EXCEPT !.derived = @ + 1]

\* the key callback handed to jwtDecrypt: the loop over the secrets from position i
RECURSIVE getKey(_, _, _, _, _)
getKey(secrets, i, kid, e, salt) ==
    IF i > Len(secrets)
    THEN [ok |-> FALSE, key |-> NoKey, error |-> "no matching decryption secret",
          derived |-> 0]
    ELSE LET d == getDerivedEncryptionKey(e, secrets[i], salt) IN
         IF ~d.ok
         THEN [ok |-> FALSE, key |-> NoKey,
               error |-> "Unsupported JWT Content Encryption Algorithm", derived |-> 0]
         ELSE IF kid = <<>>
         THEN [ok |-> TRUE, key |-> d.key, error |-> "", derived |-> 1]
         ELSE IF kid[1] = calculateJwkThumbprint(d.key)
         THEN [ok |-> TRUE, key |-> d.key, error |-> "", derived |-> 1]
         ELSE LET r == getKey(secrets, i + 1, kid, e, salt)
              IN  [r EXCEPT !.derived = @ + 1]

Result(kind, payload, error, derived, decrypts) ==
    [kind |-> kind, payload |-> payload, error |-> error,
     derived |-> derived, decrypts |-> decrypts]

\* a decryption that checks the expiration without the clock tolerance
jwtDecrypt_NoTolerance(t, secrets, salt, now) ==
    IF t.kind # "jwe"
    THEN Result("error", EmptyClaims, "JWEInvalid", 0, 0)
    ELSE IF t.hdr.alg \notin keyManagementAlgorithms
            \/ t.hdr.enc \notin contentEncryptionAlgorithms
    THEN Result("error", EmptyClaims, "JOSEAlgNotAllowed", 0, 0)
    ELSE LET g == getKey(secrets, 1, t.hdr.kid, t.hdr.enc, salt) IN
         IF ~g.ok
         THEN Result("error", EmptyClaims, g.error, g.derived, 0)
         ELSE IF g.key # t.key \/ t.tampered
         THEN Result("error", EmptyClaims, "JWEDecryptionFailed", g.derived, 1)
         ELSE IF "exp" \in DOMAIN t.payload /\ t.payload["exp"] <= now
         THEN Result("error", EmptyClaims, "JWTExpired", g.derived, 1)
         ELSE Result("payload", t.payload, "", g.derived, 1)

\* a decryption that does not authenticate the ciphertext
jwtDecrypt_Unauthenticated(t, secrets, salt, now) ==
    IF t.kind # "jwe"
    THEN Result("error", EmptyClaims, "JWEInvalid", 0, 0)
    ELSE IF t.hdr.alg \notin keyManagementAlgorithms
            \/ t.hdr.enc \notin contentEncryptionAlgorithms
    THEN Result("error", EmptyClaims, "JOSEAlgNotAllowed", 0, 0)
    ELSE LET g == getKey(secrets, 1, t.hdr.kid, t.hdr.enc, salt) IN
         IF ~g.ok
         THEN Result("error", EmptyClaims, g.error, g.derived, 0)
         ELSE IF g.key # t.key
         THEN Result("error", EmptyClaims, "JWEDecryptionFailed", g.derived, 1)
         ELSE IF "exp" \in DOMAIN t.payload /\ t.payload["exp"] <= now - clockTolerance
         THEN Result("error", EmptyClaims, "JWTExpired", g.derived, 1)
         ELSE Result("payload",
                     IF t.tampered THEN [t.payload EXCEPT !["jti"] = "corrupted"]
                     ELSE t.payload,
                     "", g.derived, 1)

\* jose's jwtDecrypt(token, getKey, {clockTolerance, keyManagementAlgorithms,
\* contentEncryptionAlgorithms}) as decode uses it
jwtDecrypt(t, secrets, salt, now) ==
    IF t.kind # "jwe"
    THEN Result("error", EmptyClaims, "JWEInvalid", 0, 0)
    ELSE IF t.hdr.alg \notin keyManagementAlgorithms
            \/ t.hdr.enc \notin contentEncryptionAlgorithms
    THEN Result("error", EmptyClaims, "JOSEAlgNotAllowed", 0, 0)
    ELSE LET g == getKey(secrets, 1, t.hdr.kid, t.hdr.enc, salt) IN
         IF ~g.ok
         THEN Result("error", EmptyClaims, g.error, g.derived, 0)
         ELSE IF g.key # t.key \/ t.tampered
         THEN Result("error", EmptyClaims, "JWEDecryptionFailed", g.derived, 1)
         ELSE IF "exp" \in DOMAIN t.payload /\ t.payload["exp"] <= now - clockTolerance
         THEN Result("error", EmptyClaims, "JWTExpired", g.derived, 1)
         ELSE Result("payload", t.payload, "", g.derived, 1)

\* a decoder that turns every failure into "no session"
decode_SwallowErrors(token, secret, salt, now) ==
    LET r == IF token = <<>> \/ token[1].kind = "empty"
             THEN Result("null", EmptyClaims, "", 0, 0)
             ELSE jwtDecrypt(token[1], AsArray(secret), salt, now)
    IN  IF r.kind = "error" THEN Result("null", EmptyClaims, "", r.derived, r.decrypts)
        ELSE r

\* a decoder without the early return for a missing token
decode_NoEarlyReturn(token, secret, salt, now) ==
    IF token = <<>>
    THEN Result("error", EmptyClaims, "JWEInvalid", 0, 0)
    ELSE jwtDecrypt(token[1], AsArray(secret), salt, now)

\* a decoder that only tries the first secret
decode_FirstSecretOnly(token, secret, salt, now) ==
    IF token = <<>> \/ token[1].kind = "empty"
    THEN Result("null", EmptyClaims, "", 0, 0)
    ELSE jwtDecrypt(token[1], << AsArray(secret)[1] >>, salt, now)

\* export async function decode(params), at time now
decode(token, secret, salt, now) ==
    LET secrets == AsArray(secret) IN
    IF token = <<>> \/ token[1].kind = "empty"
    THEN Result("null", EmptyClaims, "", 0, 0)
    ELSE jwtDecrypt(token[1], secrets, salt, now)

\* cookie values that did not come from encode (no cookie at all is the initial
\* state): an empty one, a string that is no JWE, and JWEs with other headers (no key identifier as issued by the
\* earlier generation of the codec, a foreign key identifier, other algorithms)
ForeignPayload == [sub |-> "u1", iat |-> 0, exp |-> DEFAULT_MAX_AGE, jti |-> "jti-0"]

ForeignKid == calculateJwkThumbprint(hkdf("S0", "__session", <<>>, 64))

ForeignTokens ==
    { << [kind |-> "empty"] >>, << [kind |-> "malformed"] >> }
    \cup { << [kind |-> "jwe",
               hdr |-> [alg |-> alg, enc |-> e, kid |-> kid],
               key |-> getDerivedEncryptionKey(e, x, "__session").key,
               payload |-> ForeignPayload,
               tampered |-> FALSE] >> :
           e \in contentEncryptionAlgorithms, x \in Secrets,
           kid \in { <<>>, <<ForeignKid>> } }
    \cup { << [kind |-> "jwe",
               hdr |-> [alg |-> a, enc |-> e, kid |-> <<ForeignKid>>],
               key |-> NoKey,
               payload |-> ForeignPayload,
               tampered |-> FALSE] >> :
           a \in {"dir", "A256KW"}, e \in {"A128GCM"} }

CodecInit ==
    /\ clock = 0
    /\ tok = <<>>
    /\ issued = <<>>
    /\ dcall = <<>>
    /\ dres = <<>>

\* no token is at hand and no decode result is pending
NoToken == tok = <<>> /\ issued = <<>> /\ dcall = <<>>

\* a sign-in issues a token
Encode(token, secret, maxAge, salt, jti) ==
    /\ NoToken
    /\ tok' = << encode(token, secret, maxAge, salt, clock, jti) >>
    /\ issued' = << [token |-> token, secret |-> secret, maxAge |-> maxAge,
                     salt |-> salt, at |-> clock] >>
    /\ UNCHANGED <<clock, dcall, dres>>
    /\ UNCHANGED outsideCodec

\* a request arrives with a cookie value that encode did not produce
Receive(t) ==
    /\ NoToken
    /\ tok' = t
    /\ UNCHANGED <<clock, issued, dcall, dres>>
    /\ UNCHANGED outsideCodec

\* the ciphertext part of the token is altered on its way
Tamper ==
    /\ tok # <<>> /\ tok[1].kind = "jwe" /\ ~tok[1].tampered
    /\ tok' = << [tok[1] EXCEPT !.tampered = TRUE] >>
    /\ dcall' = <<>>
    /\ dres' = <<>>
    /\ UNCHANGED <<clock, issued>>
    /\ UNCHANGED outsideCodec

\* time passes
Tick(d) ==
    /\ clock + d <= MaxClock
    /\ clock' = clock + d
    /\ dcall' = <<>>
    /\ dres' = <<>>
    /\ UNCHANGED <<tok, issued>>
    /\ UNCHANGED outsideCodec

\* the token at hand (or the absence of one) is decoded
Decode(secret, salt) ==
    /\ dcall' = << [secret |-> secret, salt |-> salt, at |-> clock] >>
    /\ dres' = << decode(tok, secret, salt, clock) >>
    /\ UNCHANGED <<clock, tok, issued>>
    /\ UNCHANGED outsideCodec

\* the cookie is overwritten or dropped (sign-out, expiry)
Discard ==
    /\ ~NoToken
    /\ tok' = <<>>
    /\ issued' = <<>>
    /\ dcall' = <<>>
    /\ dres' = <<>>
    /\ UNCHANGED clock
    /\ UNCHANGED outsideCodec

CodecNext ==
    \/ \E token \in ClaimsMaps, secret \in SecretParams, maxAge \in MaxAges,
          salt \in Salts, jti \in Jtis : Encode(token, secret, maxAge, salt, jti)
    \/ \E t \in ForeignTokens : Receive(t)
    \/ Tamper
    \/ \E d \in {5, 10} : Tick(d)
    \/ \E secret \in SecretParams, salt \in Salts : Decode(secret, salt)
    \/ Discard

----------------------------------------------------------------------------
(* The auth setup of a request: useAuthMiddleware and resolveAuthConfig *)

\* how many pages, and how many cookies, a configuration names at most
MaxUserPages == 2

MaxCookieOverrides == 1

\* an object without fields
NoFields == [k \in {} |-> ""]

\* defu(object, defaults) on flat objects: a field of object wins over the default
defu(object, defaults) ==
    [k \in (DOMAIN object) \cup (DOMAIN defaults) |->
        IF k \in DOMAIN object THEN object[k] ELSE defaults[k]]

PageNames == {"signIn", "signOut", "error", "verifyRequest"}

SING_IN_PAGE == "/sign-in"

VERIFY_REQUEST_PAGE == "/sign-in?verify-request"

\* the page a configuration gives for p when it gives one
CustomPage(p) ==
    CASE p = "signIn" -> "/login"
      [] p = "signOut" -> "/bye"
      [] p = "error" -> "/oops"
      [] OTHER -> "/check-mail"

\* the pages objects a user configuration may carry; the empty string is a page too
PartialPages ==
    { [p \in D |-> CustomPage(p)] :
        D \in { S \in SUBSET PageNames : Cardinality(S) <= MaxUserPages } }
    \cup { [signIn |-> ""] }

\* the pages the module's setup puts into runtimeConfig.auth
ModulePageDefaults ==
    [signIn |-> "/sign-in", signOut |-> "/sign-out", error |-> "/sign-in",
     verifyRequest |-> "/sign-in?verify-request"]

\* pages[p] || fallback
OrElse(pages, p, fallback) ==
    IF p \in DOMAIN pages /\ pages[p] # "" THEN pages[p] ELSE fallback

\* the pages entry of resolveAuthConfig's result
resolvePages(pages) ==
    defu(pages,
         [signIn |-> OrElse(pages, "signIn", SING_IN_PAGE),
          signOut |-> OrElse(pages, "signOut", OrElse(pages, "signIn", SING_IN_PAGE)),
          error |-> OrElse(pages, "error", OrElse(pages, "signIn", SING_IN_PAGE)),
          verifyRequest |-> OrElse(pages, "verifyRequest",
                                   OrElse(pages, "signIn", VERIFY_REQUEST_PAGE))])

CookieKeys ==
    {"sessionToken", "callbackUrl", "csrfToken", "pkceCodeVerifier", "state", "nonce"}

OptionFields == {"httpOnly", "sameSite", "path", "secure", "maxAge"}

DefaultCookieName(c) ==
    CASE c = "sessionToken" -> "__session"
      [] c = "callbackUrl" -> "auth.callback-url"
      [] c = "csrfToken" -> "auth.csrf-token"
      [] c = "pkceCodeVerifier" -> "auth.pkce.code_verifier"
      [] c = "state" -> "auth.state"
      [] OTHER -> "auth.nonce"

\* the options literal resolveAuthConfig writes for cookie c before the user's options
BaselineOptions(c) ==
    [f \in {"httpOnly", "sameSite", "path", "secure"}
           \cup (IF c \in {"pkceCodeVerifier", "state"} THEN {"maxAge"} ELSE {}) |->
        CASE f = "httpOnly" -> TRUE
          [] f = "sameSite" -> "lax"
          [] f = "path" -> "/"
          [] f = "secure" -> TRUE
          [] OTHER -> 60 * 15]

\* a cookie the configuration says nothing about
NoCookie == [name |-> <<>>, options |-> NoFields]

CookieOf(cookies, c) == IF c \in DOMAIN cookies THEN cookies[c] ELSE NoCookie

\* a resolution in which the defaults win over the user's fields
resolveCookie_DefaultsWin(cookies, c) ==
    [name |-> DefaultCookieName(c),
     options |-> defu(BaselineOptions(c), CookieOf(cookies, c).options)]

\* one entry of the cookies object of resolveAuthConfig's result
resolveCookie(cookies, c) ==
    [name |-> IF CookieOf(cookies, c).name # <<>> THEN CookieOf(cookies, c).name[1]
              ELSE DefaultCookieName(c),
     options |-> defu(CookieOf(cookies, c).options, BaselineOptions(c))]

\* export function resolveAuthConfig(options): secret, pages and cookies of the result
resolveAuthConfig(o) ==
    [secret |-> o.secret,
     pages |-> resolvePages(o.pages),
     cookies |-> [c \in CookieKeys |-> resolveCookie(o.cookies, c)]]

\* the cookie entries a user configuration may carry
CookieChoices ==
    { [name |-> <<"my-cookie">>, options |-> NoFields],
      [name |-> <<>>, options |-> [secure |-> FALSE, maxAge |-> 60]],
      [name |-> <<"my-cookie">>,
       options |-> [sameSite |-> "strict", path |-> "/app", httpOnly |-> FALSE]] }

PartialCookies ==
    UNION { [D -> CookieChoices] :
              D \in { S \in SUBSET CookieKeys : Cardinality(S) <= MaxCookieOverrides } }

\* what the application hands to defineAuthMiddleware
UserConfigs ==
    [secret : {<<>>, <<"S1">>}, pages : PartialPages, cookies : PartialCookies]

\* runtimeConfig.session as the module's setup leaves it, with the password of the environment
RuntimeSessions ==
    { [name |-> "__session", password |-> pw, cookie |-> [sameSite |-> "lax"]] :
        pw \in {"", "S2"} }

\* useRuntimeConfig(): auth.pages is there or not, and so is session
RuntimeConfigs ==
    [pages : {<<>>, <<ModulePageDefaults>>},
     session : {<<>>} \cup { <<rs>> : rs \in RuntimeSessions }]

\* defu(userConfig, {secret, pages, cookies: {sessionToken: {name, options}}})
mergeRuntimeConfig(userConfig, runtimeConfig) ==
    LET rs == runtimeConfig.session
        sessionToken == CookieOf(userConfig.cookies, "sessionToken")
    IN  [secret |-> IF userConfig.secret # <<>> THEN userConfig.secret
                    ELSE IF rs # <<>> THEN <<rs[1].password>> ELSE <<>>,
         pages |-> defu(userConfig.pages,
                        IF runtimeConfig.pages # <<>> THEN runtimeConfig.pages[1]
                        ELSE NoFields),
         cookies |-> defu([sessionToken |->
                             [name |-> IF sessionToken.name # <<>> THEN sessionToken.name
                                       ELSE IF rs # <<>> /\ rs[1].name # ""
                                       THEN <<rs[1].name>> ELSE <<"__session">>,
                              options |-> defu(sessionToken.options,
                                               IF rs # <<>> THEN rs[1].cookie
                                               ELSE NoFields)]],
                          userConfig.cookies)]

\* !options.secret
NoSecret(secret) == secret = <<>> \/ secret[1] = ""

\* a fallback that does not look at process.dev
devSecretFallback_Always(d, secret) ==
    IF NoSecret(secret) THEN <<"secret">> ELSE secret

\* if (process.dev) { if (!options.secret) { ...; options.secret = 'secret' } }
devSecretFallback(d, secret) ==
    IF d /\ NoSecret(secret) THEN <<"secret">> ELSE secret

ConfigInit ==
    /\ dev = FALSE
    /\ given = <<>>
    /\ options = <<>>
    /\ warned = FALSE
    /\ authResult = ""

\* async function useAuthMiddleware(event, config), with process.dev = d
useAuthMiddleware(d, userConfig, runtimeConfig) ==
    /\ options = <<>>
    /\ LET merged   == mergeRuntimeConfig(userConfig, runtimeConfig)
           resolved == resolveAuthConfig(merged)
       IN  /\ given' = <<merged>>
           /\ options' = << [resolved EXCEPT !.secret = devSecretFallback(d, resolved.secret)] >>
           /\ warned' = (devSecretFallback(d, resolved.secret) # resolved.secret)
    /\ dev' = d
    /\ authResult' = ""
    /\ UNCHANGED outsideConfig

\* Auth(request, options): the library's check of the configuration it is given
AuthAssertConfig ==
    /\ options # <<>>
    /\ authResult = ""
    /\ authResult' = IF NoSecret(options[1].secret) THEN "MissingSecret" ELSE "ok"
    /\ UNCHANGED <<dev, given, options, warned>>
    /\ UNCHANGED outsideConfig

\* the request is over; the next one sets up again
ConfigNextRequest ==
    /\ options # <<>>
    /\ dev' = FALSE
    /\ given' = <<>>
    /\ options' = <<>>
    /\ warned' = FALSE
    /\ authResult' = ""
    /\ UNCHANGED outsideConfig

ConfigNext ==
    \/ /\ options = <<>>
       /\ \E d \in BOOLEAN, userConfig \in UserConfigs, runtimeConfig \in RuntimeConfigs :
             useAuthMiddleware(d, userConfig, runtimeConfig)
    \/ AuthAssertConfig
    \/ ConfigNextRequest

----------------------------------------------------------------------------
(* The client session store (useAuth) and its maintenance (plugin.client) *)

\* getSession calls in flight at once, and in all
MaxInFlight == 2

MaxCalls == 3

Sessions == {"s1", "s2"}

\* if (data.value)
HoldsSession(d) == d \in Sessions

\* a status that looks at data before loading
status_DataFirst(l, d) ==
    IF HoldsSession(d) THEN "authenticated"
    ELSE IF l THEN "loading"
    ELSE "unauthenticated"

\* const status = computed(...), of loading.value and data.value
status(l, d) ==
    IF l THEN "loading"
    ELSE IF HoldsSession(d) THEN "authenticated"
    ELSE "unauthenticated"

\* the store as the client finds it: untouched, or as the server render left it
HydratedStores ==
    { [data |-> "undefined", lastRefreshedAt |-> <<>>],
      [data |-> "null", lastRefreshedAt |-> <<>>],
      [data |-> "null", lastRefreshedAt |-> <<0>>] }
    \cup { [data |-> s, lastRefreshedAt |-> <<0>>] : s \in Sessions }

\* what /api/auth/session answers: a session, or null or an empty object
Bodies == Sessions \cup {"null", "{}"}

Origins == {"initial", "focus", "periodic"}

RefreshPeriods == { <<>>, <<0>>, <<1000>> }

ClientInit ==
    /\ ppc = "start"
    /\ data = "undefined"
    /\ loading = FALSE
    /\ lastRefreshedAt = <<>>
    /\ inflight = {}
    /\ calls = 0
    /\ refreshOnWindowFocus = FALSE
    /\ refreshPeriodically = <<>>
    /\ listening = FALSE
    /\ timer = FALSE

\* getSession up to its await: loading.value = true, then $fetch.raw is under way
BeginGetSession(origin) ==
    /\ calls < MaxCalls
    /\ Cardinality(inflight) < MaxInFlight
    /\ loading' = TRUE
    /\ calls' = calls + 1
    /\ inflight' = inflight \cup { [id |-> calls + 1, origin |-> origin] }

\* the plugin up to its first await: the initial fetch when data is undefined
PluginStart(store, prerender) ==
    /\ ppc = "start"
    /\ lastRefreshedAt' = store.lastRefreshedAt
    /\ IF ~prerender /\ store.data = "undefined"
       THEN /\ BeginGetSession("initial")
            /\ data' = store.data
            /\ ppc' = "awaitInitial"
       ELSE /\ data' = store.data
            /\ ppc' = "config"
            /\ UNCHANGED <<loading, calls, inflight>>
    /\ UNCHANGED <<refreshOnWindowFocus, refreshPeriodically, listening, timer>>
    /\ UNCHANGED outsideClient

\* the plugin resumes once the getSession it awaits has returned
Resumed(c) == IF ppc = "awaitInitial" /\ c.origin = "initial" THEN "config" ELSE ppc

\* getSession after its await, $fetch fulfilled: the try block and finally
FetchFulfilled(c, body) ==
    /\ c \in inflight
    /\ data' = IF body \in Sessions THEN body ELSE "null"
    /\ lastRefreshedAt' = <<calls>>
    /\ loading' = FALSE
    /\ inflight' = inflight \ {c}
    /\ ppc' = Resumed(c)
    /\ UNCHANGED <<calls, refreshOnWindowFocus, refreshPeriodically, listening, timer>>
    /\ UNCHANGED outsideClient

\* getSession after its await, $fetch rejected: catch and finally
FetchRejected(c) ==
    /\ c \in inflight
    /\ data' = "null"
    /\ loading' = FALSE
    /\ inflight' = inflight \ {c}
    /\ ppc' = Resumed(c)
    /\ UNCHANGED <<lastRefreshedAt, calls, refreshOnWindowFocus, refreshPeriodically,
                   listening, timer>>
    /\ UNCHANGED outsideClient

\* the plugin reads refreshOnWindowFocus and refreshPeriodically and installs its hooks
ReadPublicConfig(focus, period) ==
    /\ ppc = "config"
    /\ refreshOnWindowFocus' = focus
    /\ refreshPeriodically' = period
    /\ ppc' = "installed"
    /\ UNCHANGED <<data, loading, lastRefreshedAt, inflight, calls, listening, timer>>
    /\ UNCHANGED outsideClient

\* nuxtApp.hook('app:mounted', ...)
AppMounted ==
    /\ ppc = "installed"
    /\ listening' = TRUE
    /\ timer' = (refreshPeriodically # <<>> /\ refreshPeriodically[1] > 0)
    /\ ppc' = "mounted"
    /\ UNCHANGED <<data, loading, lastRefreshedAt, inflight, calls,
                   refreshOnWindowFocus, refreshPeriodically>>
    /\ UNCHANGED outsideClient

\* visibilityHandler, the document being visible or not
VisibilityChange(visible) ==
    /\ listening
    /\ IF refreshOnWindowFocus /\ visible
       THEN BeginGetSession("focus")
       ELSE UNCHANGED <<loading, calls, inflight>>
    /\ UNCHANGED <<ppc, data, lastRefreshedAt, refreshOnWindowFocus, refreshPeriodically,
                   listening, timer>>
    /\ UNCHANGED outsideClient

\* an interval callback that does not look at data
IntervalTick_Unconditional ==
    /\ timer
    /\ BeginGetSession("periodic")
    /\ UNCHANGED <<ppc, data, lastRefreshedAt, refreshOnWindowFocus, refreshPeriodically,
                   listening, timer>>
    /\ UNCHANGED outsideClient

\* the setInterval callback
IntervalTick ==
    /\ timer
    /\ IF HoldsSession(data)
       THEN BeginGetSession("periodic")
       ELSE UNCHANGED <<loading, calls, inflight>>
    /\ UNCHANGED <<ppc, data, lastRefreshedAt, refreshOnWindowFocus, refreshPeriodically,
                   listening, timer>>
    /\ UNCHANGED outsideClient

\* an unmount that clears data and leaves lastRefreshedAt
Unmount_KeepsLastRefreshedAt ==
    /\ ppc = "mounted"
    /\ listening' = FALSE
    /\ timer' = FALSE
    /\ data' = "undefined"
    /\ ppc' = "unmounted"
    /\ UNCHANGED <<lastRefreshedAt, loading, inflight, calls, refreshOnWindowFocus,
                   refreshPeriodically>>
    /\ UNCHANGED outsideClient

\* nuxtApp.vueApp.unmount as the plugin replaced it
Unmount ==
    /\ ppc = "mounted"
    /\ listening' = FALSE
    /\ timer' = FALSE
    /\ lastRefreshedAt' = <<>>
    /\ data' = "undefined"
    /\ ppc' = "unmounted"
    /\ UNCHANGED <<loading, inflight, calls, refreshOnWindowFocus, refreshPeriodically>>
    /\ UNCHANGED outsideClient

ClientNext ==
    \/ /\ ppc = "start"
       /\ \E store \in HydratedStores, prerender \in BOOLEAN : PluginStart(store, prerender)
    \/ \E c \in inflight, body \in Bodies : FetchFulfilled(c, body)
    \/ \E c \in inflight : FetchRejected(c)
    \/ \E focus \in BOOLEAN, period \in RefreshPeriods : ReadPublicConfig(focus, period)
    \/ AppMounted
    \/ \E visible \in BOOLEAN : VisibilityChange(visible)
    \/ IntervalTick
    \/ Unmount

----------------------------------------------------------------------------
(* The route middleware (runtime/middleware/auth.ts) *)

\* the auth entries of a page's meta: absent, true, false, or an object
MetaObjects ==
    { [k \in D |-> CASE k = "unauthenticatedOnly" -> u
                     [] k = "navigateAuthenticatedTo" -> "/home"
                     [] OTHER -> "/guest-login"] :
        D \in SUBSET {"unauthenticatedOnly", "navigateAuthenticatedTo",
                      "navigateUnauthenticatedTo"},
        u \in BOOLEAN }

Metas ==
    { [kind |-> k, fields |-> NoFields] : k \in {"undefined", "true", "false"} }
    \cup { [kind |-> "object", fields |-> f] : f \in MetaObjects }

RouteQueries == { NoFields, [tab |-> "a"], [error |-> "Old", tab |-> "a"] }

RoutePaths == {"/sign-in", "/dashboard"}

\* the routes navigated to: meta.auth, matched.length > 0, path, query
Routes == [meta : Metas, matched : BOOLEAN, path : RoutePaths, query : RouteQueries]

\* useRuntimeConfig().public.auth.signIn: absent, empty or a path
SignInOptions == { <<>>, <<"">>, <<"/sign-in">> }

\* the middleware returns nothing, or navigateTo(...)
Pass == [kind |-> "pass", path |-> "", query |-> NoFields, external |-> FALSE]

navigateTo(path, query, external) ==
    [kind |-> "redirect", path |-> path, query |-> query, external |-> external]

\* const metaAuth = typeof to.meta.auth === 'object' ? {unauthenticatedOnly: true, ...} : ...
metaAuthOf(meta) ==
    IF meta.kind = "object"
    THEN [kind |-> "object", fields |-> defu(meta.fields, [unauthenticatedOnly |-> TRUE])]
    ELSE meta

\* {...to.query, error: 'SessionRequired', callbackUrl: to.path}
SessionRequiredQuery(to) ==
    defu([error |-> "SessionRequired", callbackUrl |-> to.path], to.query)

\* a middleware that sends an authenticated user off a guest page to '/' always
authMiddleware_AlwaysHome(to, st, signIn) ==
    LET metaAuth    == metaAuthOf(to.meta)
        isGuestMode == metaAuth.kind = "object" /\ metaAuth.fields["unauthenticatedOnly"]
    IN  IF metaAuth.kind = "false" THEN Pass
        ELSE IF isGuestMode /\ st = "unauthenticated" THEN Pass
        ELSE IF metaAuth.kind = "object" /\ ~metaAuth.fields["unauthenticatedOnly"] THEN Pass
        ELSE IF st = "authenticated"
        THEN IF isGuestMode THEN navigateTo("/", NoFields, FALSE) ELSE Pass
        ELSE IF ~to.matched THEN Pass
        ELSE IF signIn # <<>> /\ signIn[1] # ""
        THEN IF to.path = signIn[1] THEN Pass
             ELSE navigateTo(signIn[1], SessionRequiredQuery(to), FALSE)
        ELSE navigateTo("/api/auth/error", SessionRequiredQuery(to), TRUE)

\* a middleware that drops the route's query from the sign-in redirect
authMiddleware_DropsQuery(to, st, signIn) ==
    LET metaAuth    == metaAuthOf(to.meta)
        isGuestMode == metaAuth.kind = "object" /\ metaAuth.fields["unauthenticatedOnly"]
        query       == [error |-> "SessionRequired", callbackUrl |-> to.path]
    IN  IF metaAuth.kind = "false" THEN Pass
        ELSE IF isGuestMode /\ st = "unauthenticated" THEN Pass
        ELSE IF metaAuth.kind = "object" /\ ~metaAuth.fields["unauthenticatedOnly"] THEN Pass
        ELSE IF st = "authenticated"
        THEN IF isGuestMode
             THEN navigateTo(IF "navigateAuthenticatedTo" \in DOMAIN metaAuth.fields
                             THEN metaAuth.fields["navigateAuthenticatedTo"] ELSE "/",
                             NoFields, FALSE)
             ELSE Pass
        ELSE IF ~to.matched THEN Pass
        ELSE IF signIn # <<>> /\ signIn[1] # ""
        THEN IF to.path = signIn[1] THEN Pass
             ELSE navigateTo(signIn[1], query, FALSE)
        ELSE navigateTo("/api/auth/error", query, TRUE)

\* export default defineNuxtRouteMiddleware((to) => ...), with status.value = st
authMiddleware(to, st, signIn) ==
    LET metaAuth    == metaAuthOf(to.meta)
        isGuestMode == metaAuth.kind = "object" /\ metaAuth.fields["unauthenticatedOnly"]
    IN  IF metaAuth.kind = "false" THEN Pass
        ELSE IF isGuestMode /\ st = "unauthenticated" THEN Pass
        ELSE IF metaAuth.kind = "object" /\ ~metaAuth.fields["unauthenticatedOnly"] THEN Pass
        ELSE IF st = "authenticated"
        THEN IF isGuestMode
             THEN navigateTo(IF "navigateAuthenticatedTo" \in DOMAIN metaAuth.fields
                             THEN metaAuth.fields["navigateAuthenticatedTo"] ELSE "/",
                             NoFields, FALSE)
             ELSE Pass
        ELSE IF ~to.matched THEN Pass
        ELSE IF signIn # <<>> /\ signIn[1] # ""
        THEN IF to.path = signIn[1] THEN Pass
             ELSE navigateTo(signIn[1], SessionRequiredQuery(to), FALSE)
        ELSE navigateTo("/api/auth/error", SessionRequiredQuery(to), TRUE)

MiddlewareInit ==
    /\ nav = <<>>
    /\ navResult = <<>>

\* a navigation to route to, the store holding loading l and data d
Navigate(to, l, d, signIn) ==
    /\ nav = <<>>
    /\ nav' = << [to |-> to, loading |-> l, data |-> d, signIn |-> signIn] >>
    /\ navResult' = << authMiddleware(to, status(l, d), signIn) >>
    /\ UNCHANGED outsideMiddleware

\* the navigation is over
NavigationEnd ==
    /\ nav # <<>>
    /\ nav' = <<>>
    /\ navResult' = <<>>
    /\ UNCHANGED outsideMiddleware

MiddlewareNext ==
    \/ /\ nav = <<>>
       /\ \E to \in Routes, l \in BOOLEAN, d \in Sessions \cup {"null", "undefined"},
             signIn \in SignInOptions : Navigate(to, l, d, signIn)
    \/ NavigationEnd

Init == HandlerInit /\ CodecInit /\ ConfigInit /\ ClientInit /\ MiddlewareInit

SpecHandler == Init /\ [][HandlerNext]_vars

SpecCodec == Init /\ [][CodecNext]_vars

SpecConfig == Init /\ [][ConfigNext]_vars

SpecClient == Init /\ [][ClientNext]_vars

SpecMiddleware == Init /\ [][MiddlewareNext]_vars

----------------------------------------------------------------------------
(* Claims about the credentials-flow cookie rewrite *)

\* the handler returned Auth's response after the cookie rewrite was applied to it
Rewritten ==
    hpc = "done" /\ outcome = "response" /\ patched /\ sessionCookie # <<>>

\* positions of the Set-Cookie lines of a list whose cookie name is n
NamedPositions(list, n) == { i \in DOMAIN list : CookieName(list[i]) = n }

\* C1: after the cookie rewrite the final response carries exactly one Set-Cookie
\* header whose cookie name is the configured session-cookie name, whatever number
\* of session cookies the library's raw response carried
C1_ExactlyOneSessionCookie ==
    Rewritten =>
        Cardinality(NamedPositions(response.cookies, req.options[1].name)) = 1

C1_Witness ==
    /\ Rewritten
    /\ Cardinality(NamedPositions(rawResponse, req.options[1].name)) >= 2
    /\ Cardinality(NamedPositions(response.cookies, req.options[1].name)) = 1

\* the lines of a list whose cookie name is not n, in their order
WithoutName(list, n) == SelectSeq(list, LAMBDA line : CookieName(line) # n)

\* C2: the rewrite leaves every Set-Cookie header that is not the session cookie
\* unchanged and in its original relative order, and puts the replacement session
\* cookie (configured name, the stored session's token as value) after them; raw
\* cookies [sessionToken=default-cookie, csrfToken=abc] with token tok123 end as
\* [csrfToken=abc, sessionToken=tok123]
C2_OthersKeptReplacementLast ==
    Rewritten =>
        LET final == response.cookies
            name  == req.options[1].name
            last  == final[Len(final)]
        IN  /\ Len(final) >= 1
            /\ SubSeq(final, 1, Len(final) - 1) = WithoutName(rawResponse, name)
            /\ CookieName(last) = name
            /\ CookieValue(last) = encodeURIComponent(persisted[Len(persisted)].sessionToken)
            /\ ( /\ rawResponse = << <<"sessionToken", "=", "default-cookie">>,
                                     <<"csrfToken", "=", "abc">> >>
                 /\ name = <<"sessionToken">>
                 /\ persisted[Len(persisted)].sessionToken = "tok123" )
               => /\ Len(final) = 2
                  /\ final[1] = <<"csrfToken", "=", "abc">>
                  /\ SubSeq(final[2], 1, 3) = <<"sessionToken", "=", "tok123">>

C2_Witness ==
    /\ Rewritten
    /\ rawResponse = << <<"sessionToken", "=", "default-cookie">>,
                        <<"csrfToken", "=", "abc">> >>
    /\ req.options[1].name = <<"sessionToken">>
    /\ persisted[Len(persisted)].sessionToken = "tok123"
    /\ Len(response.cookies) = 2

\* a replacement session cookie is on the response the handler returned
CookieEmitted ==
    /\ outcome = "response"
    /\ \E i \in DOMAIN response.cookies, j \in DOMAIN persisted :
          /\ CookieName(response.cookies[i]) = req.options[1].name
          /\ CookieValue(response.cookies[i]) = encodeURIComponent(persisted[j].sessionToken)

\* C3: for every outcome of a credentials-flow request, a replacement session cookie
\* is emitted if and only if a session record was persisted through createSession
C3_CookieIffSession ==
    (hpc = "done" /\ patched) => (CookieEmitted <=> persisted # <<>>)

\* C4: if credential verification fails (the patched jwt callback receives no user
\* id), createSession is never called, no cookie is removed or added, and the
\* library's response is returned with its Set-Cookie headers unchanged
C4_VerificationFailurePassesThrough ==
    (patched /\ ~gotUserId) =>
        /\ adapterCalls = 0
        /\ persisted = <<>>
        /\ sessionCookie = <<>>
        /\ (hpc = "done" /\ outcome = "response") => response.cookies = rawResponse

C4_Witness ==
    /\ hpc = "done" /\ patched /\ ~gotUserId /\ jwtCalls >= 1
    /\ outcome = "response"
    /\ NamedPositions(rawResponse, req.options[1].name) # {}
    /\ response.cookies = rawResponse

\* C5: if createSession fails during the credentials flow, no cookie substitution
\* happens and the original failure propagates to the caller as a request failure
C5_AdapterFailurePropagates ==
    (hpc = "done" /\ patched /\ cbThrew) =>
        /\ outcome = "throwAdapter"
        /\ response = NoResponse

\* the last k tokens of p are slashes
EndsInSlashes(p, k) == Len(p) >= k /\ \A i \in (Len(p) - k + 1)..Len(p) : p[i] = "/"

\* p ends in /callback/credentials once at most n trailing slashes are ignored
CredentialsRoute(p, n) ==
    \E k \in 0..n :
        EndsInSlashes(p, k) /\ endsWith(SubSeq(p, 1, Len(p) - k), CredentialsSuffix)

\* the request's path is the error page under the base path (a trailing slash apart)
OnErrorPage ==
    LET p == UrlPathname(req.url)
        e == BasePath \o UrlPathname(req.options[1].error)
    IN  p = e \/ p = Append(e, "/")

\* the request was forwarded to Auth with the unpatched options and, when Auth
\* answered, its response was returned with its cookies as they were
ForwardedUnchanged ==
    /\ ~patched
    /\ outcome \in {"response", "throwAuth"}
    /\ outcome = "response" => (response.kind = "auth" /\ response.cookies = rawResponse)

\* C6 as stated: the rewrite path is taken only for a path ending in
\* /callback/credentials (one trailing slash ignored) under the database strategy,
\* and every other request is forwarded to Auth unpatched and returned unchanged
C6_AsStated ==
    (hpc = "done" /\ req.options # <<>>) =>
        /\ patched => /\ req.options[1].strategy = "database"
                      /\ CredentialsRoute(UrlPathname(req.url), 1)
        /\ ~patched => ForwardedUnchanged

\* C6, amended: the rewrite path is taken only for a path ending in
\* /callback/credentials (up to two trailing slashes ignored) under the database
\* strategy; every other request that has auth options is forwarded to Auth unpatched
\* and returned unchanged, except a request for the error page under the base path,
\* which is answered with a redirect to pages.error without calling Auth
C6_RewriteOnlyForCredentialsDatabase ==
    (hpc = "done" /\ req.options # <<>>) =>
        /\ patched => /\ req.options[1].strategy = "database"
                      /\ CredentialsRoute(UrlPathname(req.url), 2)
        /\ (~patched /\ ~OnErrorPage) => ForwardedUnchanged
        /\ (~patched /\ OnErrorPage) =>
               /\ outcome = "redirect"
               /\ response.kind = "redirect"
               /\ rawResponse = <<>>

C6_Witness ==
    /\ hpc = "done" /\ patched /\ outcome = "response"
    /\ EndsInSlashes(UrlPathname(req.url), 2)
    /\ req.options[1].strategy = "database"

\* C25: with no auth options in the request context the /api/auth handler fails
\* with status 404 and getSession returns null, and neither calls Auth
C25_NoOptionsNoAuth ==
    /\ [](req.options = <<>> => hpc \notin {"inAuth", "inGetSession"})
    /\ []((hpc = "done" /\ req.options = <<>>) =>
             (outcome = "throw404" /\ ~patched /\ response = NoResponse /\ rawResponse = <<>>))
    /\ []((hpc = "gotSession" /\ req.options = <<>>) => outcome = "sessionNull")
    /\ [][(hpc = "idle" /\ hpc' # "idle" /\ req'.options = <<>>)
            => hpc' \in {"done", "gotSession"}]_vars

C25_Witness ==
    /\ hpc = "gotSession"
    /\ req.options = <<>>
    /\ req.url = SessionUrl
    /\ outcome = "sessionNull"

C25_WitnessHandler ==
    /\ hpc = "done"
    /\ req.options = <<>>
    /\ req.method = "POST"
    /\ outcome = "throw404"

----------------------------------------------------------------------------
(* Claims about the token codec *)

Elements(list) == { list[i] : i \in DOMAIN list }

\* decode was just called on the token at hand
Decoded == dcall # <<>>

\* the token at hand came from encode and was not altered since
IssuedIntact == issued # <<>> /\ ~tok[1].tampered

\* the secret encode encrypted under
IssuingSecret == AsArray(issued[1].secret)[1]

\* the token at hand, issued by encode, is not past its expiration by the tolerance
WithinLifetime ==
    clock < issued[1].at
            + (IF issued[1].maxAge = <<>> THEN DEFAULT_MAX_AGE ELSE issued[1].maxAge[1])
            + clockTolerance

\* C7: key rotation. A token encoded with secret S1 decodes when decode is given a
\* secret list that holds S1, also when S1 is not first ([S2, S1]); decoding it with
\* a list that does not hold S1 ([S2]) fails with the no-matching-secret error
C7_KeyRotation ==
    (Decoded /\ issued # <<>>) =>
        LET ds == Elements(AsArray(dcall[1].secret)) IN
        /\ (IssuingSecret \in ds /\ ~tok[1].tampered /\ WithinLifetime
            /\ dcall[1].salt = issued[1].salt)
           => (dres[1].kind = "payload" /\ dres[1].payload = tok[1].payload)
        /\ IssuingSecret \notin ds
           => (dres[1].kind = "error"
               /\ dres[1].error = "no matching decryption secret")

C7_Witness ==
    /\ Decoded /\ IssuedIntact
    /\ issued[1].secret = [array |-> FALSE, list |-> <<"S1">>]
    /\ dcall[1].secret = [array |-> TRUE, list |-> <<"S2", "S1">>]
    /\ issued[1].token = [sub |-> "u1"]
    /\ dres[1].kind = "payload"
    /\ dres[1].payload["sub"] = "u1"

\* thumbprints of the keys derived from the secrets decode was given
ConfiguredThumbprints ==
    { calculateJwkThumbprint(hkdf(x, dcall[1].salt,
                                  <<"Auth Encryption Key (", dcall[1].salt, ")">>, n)) :
      x \in Elements(AsArray(dcall[1].secret)), n \in {32, 64} }

\* C8: a non-empty token whose key identifier matches the thumbprint of none of the
\* configured secrets' derived keys makes decode fail with an error (the
\* no-matching-secret error when its algorithms are accepted); decode returns
\* neither null nor a claims map for it
C8_UnknownKidRaises ==
    (Decoded /\ tok # <<>> /\ tok[1].kind = "jwe" /\ tok[1].hdr.kid # <<>>
     /\ tok[1].hdr.kid[1] \notin ConfiguredThumbprints) =>
        /\ dres[1].kind = "error"
        /\ dres[1].payload = EmptyClaims
        /\ (tok[1].hdr.alg = "dir" /\ tok[1].hdr.enc \in {"A256CBC-HS512", "A256GCM"})
           => dres[1].error = "no matching decryption secret"

C8_Witness ==
    /\ Decoded /\ IssuedIntact
    /\ IssuingSecret = "S1"
    /\ dcall[1].secret = [array |-> TRUE, list |-> <<"S2">>]
    /\ dcall[1].salt = issued[1].salt
    /\ dres[1].kind = "error"
    /\ dres[1].error = "no matching decryption secret"

\* C9: decode returns null, without an error, without deriving a key and without
\* attempting decryption, whenever the token is empty or absent, for any secret
\* list and salt
C9_NoTokenIsNull ==
    (Decoded /\ (tok = <<>> \/ tok[1].kind = "empty")) =>
        /\ dres[1].kind = "null"
        /\ dres[1].error = ""
        /\ dres[1].derived = 0
        /\ dres[1].decrypts = 0

C9_Witness ==
    /\ Decoded
    /\ tok = << [kind |-> "empty"] >>
    /\ dcall[1].secret = [array |-> TRUE, list |-> <<"S2", "S1">>]
    /\ dres[1].kind = "null"

TimingFields == {"iat", "exp", "jti"}

KeyOf(x, salt, n) == hkdf(x, salt, <<"Auth Encryption Key (", salt, ")">>, n)

\* C11: encode encrypts under the key derived from the first secret of the list (a
\* single secret counts as a one-element list) and puts that key's thumbprint in
\* the header as key identifier; later secrets of the list are not used
C11_EncodeUsesFirstSecret ==
    issued # <<>> =>
        LET first == issued[1].secret.list[1]
            key   == KeyOf(first, issued[1].salt, 64)
        IN  /\ tok[1].key = key
            /\ tok[1].hdr.kid = << [k |-> key, digest |-> 512] >>
            /\ tok[1].hdr.alg = "dir" /\ tok[1].hdr.enc = "A256CBC-HS512"

C11_Witness ==
    /\ issued # <<>>
    /\ issued[1].secret = [array |-> TRUE, list |-> <<"S2", "S1">>]
    /\ tok[1].key.ikm = "S2"
    /\ tok[1].hdr.kid[1].k.ikm = "S2"

\* the token at hand is a JWE whose algorithms decode accepts
AcceptedJwe ==
    /\ tok # <<>> /\ tok[1].kind = "jwe"
    /\ tok[1].hdr.alg = "dir" /\ tok[1].hdr.enc \in {"A256CBC-HS512", "A256GCM"}

\* the key derived from the i-th secret decode was given, for the token's cipher
CandidateKey(i) ==
    KeyOf(AsArray(dcall[1].secret)[i], dcall[1].salt,
          IF tok[1].hdr.enc = "A256GCM" THEN 32 ELSE 64)

\* positions of the secrets whose derived-key thumbprint is the token's key identifier
MatchingPositions ==
    { i \in DOMAIN AsArray(dcall[1].secret) :
        tok[1].hdr.kid[1] = [k |-> CandidateKey(i), digest |-> CandidateKey(i).len * 8] }

\* the least element of a non-empty set of numbers
Least(S) == CHOOSE i \in S : \A j \in S : i <= j

\* decode's result when decryption is attempted with key k
ResultUnder(k) ==
    IF k = tok[1].key /\ ~tok[1].tampered
       /\ ~(tok[1].payload["exp"] <= clock - clockTolerance)
    THEN dres[1].kind = "payload" /\ dres[1].payload = tok[1].payload
    ELSE dres[1].kind = "error"
         /\ dres[1].error \in {"JWEDecryptionFailed", "JWTExpired"}

\* C12: for a token without key identifier the key derived from the first secret is
\* selected unconditionally and no later secret is tried; with a key identifier the
\* secrets are tried in list order and the first whose derived-key thumbprint equals
\* the identifier is selected
C12_KeySelection ==
    (Decoded /\ AcceptedJwe) =>
        IF tok[1].hdr.kid = <<>>
        THEN dres[1].derived = 1 /\ dres[1].decrypts = 1 /\ ResultUnder(CandidateKey(1))
        ELSE IF MatchingPositions # {}
        THEN /\ dres[1].derived = Least(MatchingPositions)
             /\ dres[1].decrypts = 1
             /\ ResultUnder(CandidateKey(Least(MatchingPositions)))
        ELSE /\ dres[1].derived = Len(AsArray(dcall[1].secret))
             /\ dres[1].decrypts = 0
             /\ dres[1].error = "no matching decryption secret"

C12_Witness ==
    /\ Decoded /\ AcceptedJwe
    /\ tok[1].hdr.kid = <<>>
    /\ tok[1].key.ikm = "S1"
    /\ dcall[1].secret = [array |-> TRUE, list |-> <<"S2", "S1">>]
    /\ dcall[1].salt = "__session"
    /\ dres[1].derived = 1
    /\ dres[1].error = "JWEDecryptionFailed"

\* seconds by which the token at hand, issued by encode, is past its expiration
PastExpiration ==
    clock - (issued[1].at
             + (IF issued[1].maxAge = <<>> THEN DEFAULT_MAX_AGE ELSE issued[1].maxAge[1]))

\* decode was given the salt and the secret the token at hand was issued with
RightKeyGiven ==
    /\ dcall[1].salt = issued[1].salt
    /\ IssuingSecret \in Elements(AsArray(dcall[1].secret))

\* C13: expiry is checked with a 15-second tolerance: a token whose expiration is
\* less than 15 s (10 s) before now still decodes to its claims, one whose
\* expiration is more than 15 s (20 s) before now fails to decode
C13_ExpiryTolerance ==
    (Decoded /\ IssuedIntact /\ RightKeyGiven) =>
        /\ PastExpiration < 15 => dres[1].kind = "payload"
        /\ PastExpiration = 10 => dres[1].payload = tok[1].payload
        /\ PastExpiration > 15 => (dres[1].kind = "error" /\ dres[1].error = "JWTExpired")
        /\ PastExpiration = 20 => dres[1].kind = "error"

C13_Witness ==
    /\ Decoded /\ IssuedIntact /\ RightKeyGiven
    /\ PastExpiration = 10
    /\ dres[1].kind = "payload"
    /\ dres[1].payload["exp"] = clock - 10

C13_WitnessExpired ==
    /\ Decoded /\ IssuedIntact /\ RightKeyGiven
    /\ PastExpiration = 20
    /\ dres[1].error = "JWTExpired"

C15_SaltSeparatesKeys ==
    /\ \A x \in Secrets, a \in Salts, b \in Salts, e \in contentEncryptionAlgorithms :
          a # b => getDerivedEncryptionKey(e, x, a).key # getDerivedEncryptionKey(e, x, b).key
    /\ (Decoded /\ issued # <<>> /\ dcall[1].salt # issued[1].salt) =>
          /\ dres[1].kind = "error"
          /\ dres[1].error = "no matching decryption secret"

C15_Witness ==
    /\ Decoded /\ IssuedIntact
    /\ dcall[1].salt # issued[1].salt
    /\ IssuingSecret \in Elements(AsArray(dcall[1].secret))
    /\ PastExpiration < 0
    /\ dres[1].error = "no matching decryption secret"

----------------------------------------------------------------------------
(* Claims about the auth setup of a request *)

\* C16: when no secret is configured the setup puts the fallback 'secret' in place,
\* with a warning, in development mode only; outside development mode the absent
\* secret stays absent and Auth reports the configuration as lacking its secret
C16_FallbackOnlyInDevelopment ==
    options # <<>> =>
        /\ (NoSecret(given[1].secret) /\ dev) =>
              (options[1].secret = <<"secret">> /\ warned /\ authResult \in {"", "ok"})
        /\ (NoSecret(given[1].secret) /\ ~dev) =>
              /\ options[1].secret = given[1].secret
              /\ ~warned
              /\ authResult \in {"", "MissingSecret"}
        /\ ~NoSecret(given[1].secret) =>
              (options[1].secret = given[1].secret /\ ~warned /\ authResult \in {"", "ok"})

C16_Witness ==
    /\ options # <<>>
    /\ ~dev
    /\ given[1].secret = <<>>
    /\ options[1].secret = <<>>
    /\ authResult = "MissingSecret"

C16_WitnessDevelopment ==
    /\ options # <<>>
    /\ dev
    /\ given[1].secret = <<"">>
    /\ options[1].secret = <<"secret">>
    /\ warned
    /\ authResult = "ok"

\* C17: each of the six cookies gets its default name and the baseline httpOnly,
\* sameSite=lax, path=/, secure; maxAge of 15 minutes is added for the PKCE and
\* state cookies only; a field the configuration gives replaces the default of
\* that field
C17_CookieDefaults ==
    options # <<>> =>
        \A c \in CookieKeys :
            LET user == CookieOf(given[1].cookies, c)
                r    == options[1].cookies[c]
            IN  /\ r.name = IF user.name # <<>> THEN user.name[1]
                            ELSE CASE c = "sessionToken" -> "__session"
                                   [] c = "callbackUrl" -> "auth.callback-url"
                                   [] c = "csrfToken" -> "auth.csrf-token"
                                   [] c = "pkceCodeVerifier" -> "auth.pkce.code_verifier"
                                   [] c = "state" -> "auth.state"
                                   [] c = "nonce" -> "auth.nonce"
                /\ DOMAIN r.options \subseteq OptionFields
                /\ \A f \in OptionFields :
                      IF f \in DOMAIN user.options
                      THEN f \in DOMAIN r.options /\ r.options[f] = user.options[f]
                      ELSE CASE f = "httpOnly" -> r.options[f] = TRUE
                             [] f = "sameSite" -> r.options[f] = "lax"
                             [] f = "path" -> r.options[f] = "/"
                             [] f = "secure" -> r.options[f] = TRUE
                             [] f = "maxAge" ->
                                  IF c \in {"pkceCodeVerifier", "state"}
                                  THEN r.options[f] = 900
                                  ELSE f \notin DOMAIN r.options

C17_Witness ==
    /\ options # <<>>
    /\ "state" \in DOMAIN given[1].cookies
    /\ given[1].cookies["state"] =
          [name |-> <<>>, options |-> [secure |-> FALSE, maxAge |-> 60]]
    /\ options[1].cookies["state"].name = "auth.state"
    /\ options[1].cookies["state"].options =
          [httpOnly |-> TRUE, sameSite |-> "lax", path |-> "/", secure |-> FALSE,
           maxAge |-> 60]
    /\ options[1].cookies["pkceCodeVerifier"].options["maxAge"] = 900
    /\ options[1].cookies["nonce"].name = "auth.nonce"
    /\ "maxAge" \notin DOMAIN options[1].cookies["sessionToken"].options

\* the defaults the pages are said to have
StatedPageDefaults ==
    [signIn |-> "/sign-in", signOut |-> "/sign-out", error |-> "/sign-in",
     verifyRequest |-> "/sign-in?verify-request"]

\* C18: with no pages given, resolveAuthConfig resolves signIn to '/sign-in',
\* signOut to '/sign-out', error to '/sign-in' and verifyRequest to
\* '/sign-in?verify-request'; a page given replaces the default of that page only
C18_PageDefaults ==
    options # <<>> =>
        \A p \in PageNames :
            options[1].pages[p] = IF p \in DOMAIN given[1].pages THEN given[1].pages[p]
                                  ELSE StatedPageDefaults[p]

----------------------------------------------------------------------------
(* Claims about the client session store *)

\* C19: status is 'loading' exactly when loading is true, 'authenticated' exactly
\* when loading is false and data holds a session, 'unauthenticated' exactly when
\* loading is false and data is null or undefined
C19_StatusFollowsStore ==
    /\ status(loading, data) \in {"loading", "authenticated", "unauthenticated"}
    /\ status(loading, data) = "loading" <=> loading
    /\ status(loading, data) = "authenticated" <=> (~loading /\ data \in Sessions)
    /\ status(loading, data) = "unauthenticated"
          <=> (~loading /\ data \in {"null", "undefined"})

C19_Witness ==
    /\ loading
    /\ data \in Sessions
    /\ \E c \in inflight : c.origin = "periodic"
    /\ status(loading, data) = "loading"

\* C20: loading is true in every state in which a fetch started by getSession is
\* in flight, whatever the interleaving of the initial, periodic and window-focus
\* calls, and false when none is in flight
C20_LoadingIffInFlight == loading <=> (inflight # {})

\* getSession calls that have returned
Completed == calls - Cardinality(inflight)

\* C21: data is undefined only while no getSession call has completed, or after the
\* unmount; lastRefreshedAt is undefined whenever data is; a completing getSession
\* leaves data a session or null; the unmount resets data and lastRefreshedAt
C21_UndefinedOnlyBeforeInitOrAfterUnmount ==
    /\ [](data = "undefined" => lastRefreshedAt = <<>>)
    /\ []((data = "undefined" /\ ppc # "unmounted") => Completed = 0)
    /\ [][(inflight' # inflight /\ calls' = calls) => data' \in Sessions \cup {"null"}]_vars
    /\ [][(ppc # "unmounted" /\ ppc' = "unmounted")
            => (data' = "undefined" /\ lastRefreshedAt' = <<>>)]_vars

C21_Witness ==
    /\ ppc = "unmounted"
    /\ Completed > 0
    /\ inflight = {}
    /\ data = "undefined"
    /\ lastRefreshedAt = <<>>

\* C22: a periodic refresh starts getSession only at a tick where data holds a
\* session, only with refreshPeriodically a positive number, and never after the
\* unmount
C22_PeriodicRefreshOnlyWithSession ==
    /\ [][\A c \in inflight' \ inflight :
            c.origin = "periodic" =>
                /\ HoldsSession(data)
                /\ refreshPeriodically # <<>> /\ refreshPeriodically[1] > 0
                /\ ppc = "mounted"]_vars
    /\ []((refreshPeriodically = <<>> \/ ppc = "unmounted") => ~timer)

C22_Witness ==
    /\ \E c \in inflight : c.origin = "periodic" /\ c.id = calls
    /\ refreshPeriodically = <<1000>>
    /\ data \in Sessions
    /\ ppc = "mounted"

----------------------------------------------------------------------------
(* Claims about the route middleware *)

\* the navigation is to a page whose auth meta is an object with unauthenticatedOnly
\* true or left out
GuestPage ==
    /\ nav # <<>>
    /\ nav[1].to.meta.kind = "object"
    /\ "unauthenticatedOnly" \in DOMAIN nav[1].to.meta.fields
          => nav[1].to.meta.fields["unauthenticatedOnly"]

\* where a guest page sends the authenticated
AuthenticatedTarget ==
    IF "navigateAuthenticatedTo" \in DOMAIN nav[1].to.meta.fields
    THEN nav[1].to.meta.fields["navigateAuthenticatedTo"] ELSE "/"

\* the sign-in path the public runtime config gives, if it gives one
SignInConfigured == nav[1].signIn # <<>> /\ nav[1].signIn[1] # ""

\* the query of the route with error and callbackUrl put in
ExpectedQuery ==
    [k \in (DOMAIN nav[1].to.query) \cup {"error", "callbackUrl"} |->
        CASE k = "error" -> "SessionRequired"
          [] k = "callbackUrl" -> nav[1].to.path
          [] OTHER -> nav[1].to.query[k]]

\* the answer the middleware gives to a visitor it does not take for authenticated
SessionRequiredAnswer ==
    IF ~nav[1].to.matched THEN Pass
    ELSE IF SignInConfigured
    THEN IF nav[1].to.path = nav[1].signIn[1] THEN Pass
         ELSE [kind |-> "redirect", path |-> nav[1].signIn[1], query |-> ExpectedQuery,
               external |-> FALSE]
    ELSE [kind |-> "redirect", path |-> "/api/auth/error", query |-> ExpectedQuery,
          external |-> TRUE]

C24_RedirectsToNavigateUnauthenticatedTo ==
    ( /\ nav # <<>>
      /\ nav[1].to.meta.kind = "object"
      /\ "navigateUnauthenticatedTo" \in DOMAIN nav[1].to.meta.fields
      /\ "unauthenticatedOnly" \in DOMAIN nav[1].to.meta.fields
      /\ ~nav[1].to.meta.fields["unauthenticatedOnly"]
      /\ nav[1].to.matched
      /\ ~nav[1].loading
      /\ nav[1].data \notin Sessions )
    => ( /\ navResult[1].kind = "redirect"
         /\ navResult[1].path = nav[1].to.meta.fields["navigateUnauthenticatedTo"] )

====
